---- MODULE Spec2Model ----
(***************************************************************************)
(* A model of nimare/dataset/dataset.py: the Dataset container (JSON      *)
(* construction, has_data, get, the accessor stubs, pickle save/load with  *)
(* the 'z' suffix convention) and download_combined_database.              *)
(*                                                                         *)
(* Python strings that the code inspects (filenames, requirement strings,  *)
(* study ids) are sequences of one-character strings, so that endswith and *)
(* split are computed as Python computes them.                             *)
(***************************************************************************)
EXTENDS Naturals, Sequences, FiniteSets

\* ------------------------------------------------------------- bounds
\* Largest number of clauses joined by ' AND ' in a requirement string.
MaxClauses == 2

\* ------------------------------------------------------------ strings
EndsWith(s, suf) ==
    /\ Len(s) >= Len(suf)
    /\ SubSeq(s, Len(s) - Len(suf) + 1, Len(s)) = suf

\* str.split(sep): cut at every occurrence of sep, scanning left to right.
RECURSIVE Split(_, _)
Split(s, sep) ==
    LET hits == {i \in 1..(Len(s) + 1 - Len(sep)) : SubSeq(s, i, i + Len(sep) - 1) = sep}
    IN  IF Len(s) < Len(sep) \/ hits = {}
        THEN <<s>>
        ELSE LET i == CHOOSE j \in hits : \A k \in hits : j <= k
             IN  <<SubSeq(s, 1, i - 1)>> \o Split(SubSeq(s, i + Len(sep), Len(s)), sep)

AndToken == <<" ", "A", "N", "D", " ">>

RECURSIVE JoinAnd(_)
JoinAnd(cs) ==
    IF Len(cs) = 1 THEN cs[1] ELSE cs[1] \o AndToken \o JoinAnd(Tail(cs))

\* ------------------------------------------------------- JSON values
\* A study record: a JSON object with any of the keys metadata, images,
\* coordinates.  `keys` is the set of keys the object holds; the field of an
\* absent key is empty and never read.
Rec(keys, md, im, co) ==
    [keys |-> keys, metadata |-> md, images |-> im, coordinates |-> co]

RecS1 == Rec({"images", "coordinates"}, {}, {<<"z", "s1_z.nii">>}, <<<<1, 2, 3>>>>)
RecS2 == Rec({"images", "coordinates"}, {}, {<<"beta", "s2_beta.nii">>}, <<>>)
RecNoImages == Rec({"metadata", "coordinates"}, {<<"sample_size", 20>>}, {}, <<<<4, 5, 6>>>>)

IdS1 == <<"S", "1">>
IdS2 == <<"S", "2">>
NoKey == <<>>

\* What json.load returns: a dict (items in key order, keys unique) or a
\* list (items without keys).
Item(k, v) == [key |-> k, val |-> v]
JDict(items) == [kind |-> "dict", items |-> items]
JList(vals) == [kind |-> "list", items |-> [i \in 1..Len(vals) |-> Item(NoKey, vals[i])]]
NoVal == [kind |-> "none", items |-> <<>>]

DocEmpty == JDict(<<>>)
DocTwo == JDict(<<Item(IdS1, RecS1), Item(IdS2, RecS2)>>)
DocNoImages == JDict(<<Item(IdS1, RecNoImages)>>)
DocList == JList(<<RecS1>>)

JsonDocs == {DocEmpty, DocTwo, DocNoImages, DocList}

\* A JSON file on disk: parseable text holding a value, or not parseable.
JsonFiles == [valid : {TRUE}, value : JsonDocs] \cup [valid : {FALSE}, value : {NoVal}]

\* ---------------------------------------------------- Python objects
PyObj(cls, d) == [cls |-> cls, data |-> d]
None == PyObj("NoneType", NoVal)
DatasetObj(d) == PyObj("Dataset", d)
PlainObj(d) == PyObj(d.kind, d)

NoExc == [type |-> "none", msg |-> ""]
Exc(t, m) == [type |-> t, msg |-> m]

\* ------------------------------------------------- pickle and gzip
\* A file is a sequence of chunks.  A chunk is one pickle opcode with its
\* operand, or one piece of a gzip stream.  enc = "bytes8" marks an operand
\* holding 8-bit strings written by Python 2, which Python 3 decodes only
\* with encoding='latin'.  z marks a deflated chunk.
Chunk(op, cls, val, enc, z, n) ==
    [op |-> op, cls |-> cls, val |-> val, enc |-> enc, z |-> z, n |-> n]

StopChunk == Chunk("STOP", "", NoVal, "ascii", FALSE, 0)

\* pickle.dump(obj, file_object): an instance is written as its class
\* reference followed by its state (the 'data' attribute); a plain value as
\* itself.
PickleAs(o, enc) ==
    IF o.cls = "Dataset"
    THEN <<Chunk("GLOBAL", o.cls, NoVal, "ascii", FALSE, 0),
           Chunk("BUILD", "", o.data, enc, FALSE, 0),
           StopChunk>>
    ELSE <<Chunk("VALUE", o.cls, o.data, enc, FALSE, 0), StopChunk>>

Pickle(o) == PickleAs(o, "ascii")

\* pickle.load(file_object[, encoding]): run the opcodes in order up to STOP.
RECURSIVE UnpickleFrom(_, _, _, _)
UnpickleFrom(s, i, encoding, obj) ==
    IF i > Len(s) THEN [exc |-> Exc("EOFError", "ran out of input"), obj |-> None]
    ELSE LET c == s[i] IN
         IF c.z \/ c.op \notin {"GLOBAL", "BUILD", "VALUE", "STOP"}
         THEN [exc |-> Exc("UnpicklingError", "invalid load key"), obj |-> None]
         ELSE IF c.enc = "bytes8" /\ encoding = "ASCII"
         THEN [exc |-> Exc("UnicodeDecodeError", "ascii codec"), obj |-> None]
         ELSE IF c.op = "STOP"
         THEN IF obj = None /\ i = 1
              THEN [exc |-> Exc("UnpicklingError", "pickle stack empty"), obj |-> None]
              ELSE [exc |-> NoExc, obj |-> obj]
         ELSE IF c.op = "BUILD"
         THEN UnpickleFrom(s, i + 1, encoding, PyObj(obj.cls, c.val))
         ELSE UnpickleFrom(s, i + 1, encoding, PyObj(c.cls, c.val))

Unpickle(s, encoding) == UnpickleFrom(s, 1, encoding, None)

GzHeader == Chunk("GZHDR", "", NoVal, "ascii", FALSE, 0)
GzTrailer(n) == Chunk("GZEOF", "", NoVal, "ascii", FALSE, n)
Deflate(c) == [c EXCEPT !.z = TRUE]
Inflate(c) == [c EXCEPT !.z = FALSE]

\* What gzip.GzipFile(filename, 'wb') leaves in the file once closed.
Gzip(s) == <<GzHeader>> \o [i \in 1..Len(s) |-> Deflate(s[i])] \o <<GzTrailer(Len(s))>>

\* What reading gzip.GzipFile(filename, 'rb') yields.
Gunzip(s) ==
    IF s = <<>> THEN [exc |-> NoExc, out |-> <<>>]
    ELSE IF s[1].op # "GZHDR"
    THEN [exc |-> Exc("IOError", "Not a gzipped file"), out |-> <<>>]
    ELSE IF s[Len(s)].op # "GZEOF"
    THEN [exc |-> Exc("EOFError", "Compressed file ended"), out |-> <<>>]
    ELSE IF s[Len(s)].n # Len(s) - 2 \/ \E i \in 2..(Len(s) - 1) : ~s[i].z
    THEN [exc |-> Exc("IOError", "CRC check failed"), out |-> <<>>]
    ELSE [exc |-> NoExc, out |-> [i \in 1..(Len(s) - 2) |-> Inflate(s[i + 1])]]

\* ------------------------------------------------------- file system
NoFile == [exists |-> FALSE, bytes |-> <<>>]
File(bytes) == [exists |-> TRUE, bytes |-> bytes]

LetterZ == <<"z">>
NamePkl == <<"z", ".", "p", "k", "l">>
NamePklz == <<"d", ".", "p", "k", "l", "z">>
Filenames == {NamePkl, NamePklz}

\* Files the environment may have put at a snapshot path: a pickled plain
\* mapping, and Dataset pickles written by Python 2 with 8-bit strings, each
\* raw or gzip-compressed.
ForeignPickles ==
    {Pickle(PlainObj(DocTwo)),
     PickleAs(PlainObj(DocTwo), "bytes8"),
     PickleAs(DatasetObj(DocTwo), "bytes8")}
ForeignFiles == ForeignPickles \cup {Gzip(p) : p \in ForeignPickles}

\* --------------------------------------------------- requirement strings
ClauseNames ==
    {<<"z">>,
     <<"c", "o", "o", "r", "d", "i", "n", "a", "t", "e", "s">>,
     <<"b", "o", "g", "u", "s", "_", "f", "i", "e", "l", "d">>,
     IdS1}
ClauseSeqs == UNION {[1..n -> ClauseNames] : n \in 1..MaxClauses}
Requirements == {JoinAnd(cs) : cs \in ClauseSeqs}

\* An algorithm argument of get(): None, or an object with a req_data.
NoAlgorithm == <<>>
Algorithms == {NoAlgorithm} \cup Requirements

\* ----------------------------------------------------------------- state
VARIABLES
    data,   \* self.data of the Dataset instance
    fs,     \* the snapshot files: filename -> file
    saved,  \* filename -> the object a completed save() wrote there, if the
            \* file is still that one; None otherwise
    last,   \* the last call: its name, argument and outcome
    disk,   \* out_dir of download_combined_database: the directory, its
            \* three CSV caches and the image files downloaded into it
    harvest \* the last call of download_combined_database and its outcome

vars == <<data, fs, saved, last, disk, harvest>>
dsVars == <<data, fs, saved, last>>
hvVars == <<disk, harvest>>

\* ------------------------------------------ download_combined_database
\* Largest collection id the remote listing holds.
MaxCollections == 2
\* Collections per api.get_images call.
ChunkSize == 500
\* Seconds slept after each api.get_images call.
SleepSeconds == 10

NoCsv == [exists |-> FALSE, rows |-> <<>>]
Csv(rows) == [exists |-> TRUE, rows |-> rows]
NoDir ==
    [dir |-> FALSE, collections |-> NoCsv, papers |-> NoCsv, metadata |-> NoCsv,
     images |-> {}]
EmptyDir == [NoDir EXCEPT !.dir = TRUE]

\* A row of api.get_collections(): DOI is null for an unpublished collection.
Coll(id, doi) == [collection_id |-> id, DOI |-> doi]

\* The remote listings: n collections, newest first, each published or not.
Listings ==
    UNION {{[i \in 1..n |-> Coll(n + 1 - i, pub[i])] : pub \in [1..n -> BOOLEAN]} :
           n \in 0..MaxCollections}

\* A row of api.get_images().
Img(id, cid, paradigm, level, thresholded, notmni) ==
    [image_id |-> id, collection_id |-> cid, cognitive_paradigm_cogatlas |-> paradigm,
     analysis_level |-> level, is_thresholded |-> thresholded, not_mni |-> notmni]

ImagesOf(cid) ==
    <<Img(10 * cid + 1, cid, "working memory", "group", FALSE, FALSE),
      Img(10 * cid + 2, cid, "null", "single-subject", FALSE, FALSE)>>

RECURSIVE ApiGetImages(_)
ApiGetImages(pks) ==
    IF pks = <<>> THEN <<>> ELSE ImagesOf(Head(pks)) \o ApiGetImages(Tail(pks))

\* to_chunks(l, n)
RECURSIVE to_chunks(_, _)
to_chunks(l, n) ==
    IF l = <<>> THEN <<>>
    ELSE IF Len(l) <= n THEN <<l>>
    ELSE <<SubSeq(l, 1, n)>> \o to_chunks(SubSeq(l, n + 1, Len(l)), n)

\* colls_df.dropna(subset=['DOI'])
IsPublished(row) == row.DOI
DropNaDOI(rows) == SelectSeq(rows, IsPublished)

\* sorted(paper_df['collection_id'].tolist())
RECURSIVE SortedIds(_)
SortedIds(ids) ==
    IF ids = {} THEN <<>>
    ELSE LET m == CHOOSE x \in ids : \A y \in ids : x <= y
         IN  <<m>> \o SortedIds(ids \ {m})
ValidCollections(rows) == SortedIds({rows[i].collection_id : i \in 1..Len(rows)})

\* The four filters that give red_df.
KeepImage(row) ==
    /\ row.cognitive_paradigm_cogatlas # "null"
    /\ row.analysis_level = "group"
    /\ row.is_thresholded = FALSE
    /\ row.not_mni = FALSE
RedDf(rows) == SelectSeq(rows, KeepImage)

RECURSIVE ConcatChunks(_)
ConcatChunks(chunks) ==
    IF chunks = <<>> THEN <<>> ELSE ApiGetImages(Head(chunks)) \o ConcatChunks(Tail(chunks))

IsFile(d, name) == d.dir /\ d[name].exists

\* One CSV cache step: rebuild the frame and write it when overwrite is set
\* or the cache is missing, read the cache otherwise.  r carries the disk,
\* the exception raised so far, the frame of the previous step, the seconds
\* slept.  `fresh` is the rebuilt frame with the exception building it may raise.
CacheStep(r, name, overwrite, fresh, slept) ==
    IF r.exc # NoExc THEN r
    ELSE IF overwrite \/ ~IsFile(r.disk, name)
    THEN IF fresh.exc # NoExc THEN [r EXCEPT !.exc = fresh.exc, !.slept = @ + slept]
         ELSE IF ~r.disk.dir
         THEN [r EXCEPT !.exc = Exc("IOError", "No such file or directory"),
                        !.slept = @ + slept]
         ELSE [r EXCEPT !.disk = [@ EXCEPT ![name] = Csv(fresh.df)],
                        !.df = fresh.df, !.slept = @ + slept]
    ELSE [r EXCEPT !.df = r.disk[name].rows]

\* api.get_collections()
GetCollections(listing, net) ==
    IF net = "down" THEN [exc |-> Exc("ConnectionError", "get_collections"), df |-> <<>>]
    ELSE [exc |-> NoExc, df |-> listing]

\* The loop over to_chunks(valid_collections, 500) and pd.concat(image_dfs).
GetImageMetadata(paper_df, net) ==
    LET chunks == to_chunks(ValidCollections(paper_df), ChunkSize)
    IN  IF chunks = <<>>
        THEN [exc |-> Exc("ValueError", "No objects to concatenate"), df |-> <<>>]
        ELSE IF net = "down"
        THEN [exc |-> Exc("ConnectionError", "get_images"), df |-> <<>>]
        ELSE [exc |-> NoExc, df |-> ConcatChunks(chunks)]

SleptFor(paper_df, net) ==
    IF net = "down" THEN 0
    ELSE SleepSeconds * Len(to_chunks(ValidCollections(paper_df), ChunkSize))

\* if not isdir(out_dir): mkdir(out_dir); api.download_images(...)
DownloadStep(r, net) ==
    IF r.exc # NoExc THEN r
    ELSE IF ~r.disk.dir
    THEN IF net = "down"
         THEN [r EXCEPT !.disk = [@ EXCEPT !.dir = TRUE],
                        !.exc = Exc("ConnectionError", "download_images")]
         ELSE LET red == RedDf(r.df)
              IN  [r EXCEPT !.disk = [@ EXCEPT !.dir = TRUE,
                                        !.images = {red[i].image_id : i \in 1..Len(red)}]]
    ELSE r

\* The target argument is only handed on to api.download_images, and the
\* frames rfx_df and st_df are locals nothing reads: none of them changes
\* the directory or the outcome.
download_combined_database(d, overwrite, listing, net) ==
    LET r0 == [disk |-> d, exc |-> NoExc, df |-> <<>>, slept |-> 0]
        r1 == CacheStep(r0, "collections", overwrite, GetCollections(listing, net), 0)
        r2 == CacheStep(r1, "papers", overwrite,
                        [exc |-> NoExc, df |-> DropNaDOI(r1.df)], 0)
        r3 == CacheStep(r2, "metadata", overwrite, GetImageMetadata(r2.df, net),
                        SleptFor(r2.df, net))
    IN  DownloadStep(r3, net)

NoHarvest ==
    [called |-> FALSE, overwrite |-> FALSE, exc |-> NoExc, slept |-> 0,
     dirBefore |-> FALSE, red |-> {}]

Download(overwrite, listing, net) ==
    LET r == download_combined_database(disk, overwrite, listing, net)
        red == RedDf(r.df)
    IN  /\ disk' = r.disk
        /\ harvest' = [called |-> TRUE, overwrite |-> overwrite, exc |-> r.exc,
                       slept |-> r.slept, dirBefore |-> disk.dir,
                       red |-> IF r.exc = NoExc
                               THEN {red[i].image_id : i \in 1..Len(red)} ELSE {}]
        /\ UNCHANGED dsVars

\* The user creates or removes out_dir.
MakeDir ==
    /\ ~disk.dir
    /\ disk' = EmptyDir
    /\ harvest' = NoHarvest
    /\ UNCHANGED dsVars

RemoveDir ==
    /\ disk.dir
    /\ disk' = NoDir
    /\ harvest' = NoHarvest
    /\ UNCHANGED dsVars

CacheNames == {"collections", "papers", "metadata"}

RemoveCache(name) ==
    /\ IsFile(disk, name)
    /\ disk' = [disk EXCEPT ![name] = NoCsv]
    /\ harvest' = NoHarvest
    /\ UNCHANGED dsVars

Call(op, arg, exc, ret) ==
    [op |-> op, arg |-> arg, exc |-> exc, ret |-> ret,
     gz |-> FALSE, tries |-> 0, loaded |-> FALSE, decoded |-> None,
     before |-> NoFile]

Init ==
    /\ data \in JsonDocs
    /\ fs = [f \in Filenames |-> NoFile]
    /\ saved = [f \in Filenames |-> None]
    /\ last = Call("__init__", <<>>, NoExc, None)
    /\ disk = NoDir
    /\ harvest = NoHarvest

\* Dataset.__init__(dataset_file)
Construct(jf) ==
    /\ IF jf.valid
       THEN /\ data' = jf.value
            /\ last' = Call("__init__", <<>>, NoExc, None)
       ELSE /\ data' = data
            /\ last' = Call("__init__", <<>>, Exc("ValueError", "No JSON object could be decoded"), None)
    /\ UNCHANGED <<fs, saved, hvVars>>

\* self.data.get(ds, None): defined on a dict only.
DictGetRaises(d) == d.kind # "dict"

\* The loop of has_data over the clauses: a lookup that raises is turned into
\* Exception('Nope'); the value looked up is dropped.
RECURSIVE HasDataLoop(_, _)
HasDataLoop(d, clauses) ==
    IF clauses = <<>> THEN NoExc
    ELSE IF DictGetRaises(d) THEN Exc("Exception", "Nope")
    ELSE HasDataLoop(d, Tail(clauses))

\* Dataset.has_data(dat_str): no return statement.
has_data(d, dat_str) ==
    [exc |-> HasDataLoop(d, Split(dat_str, AndToken)), ret |-> None]

HasData(dat_str) ==
    /\ last' = LET r == has_data(data, dat_str)
               IN  Call("has_data", dat_str, r.exc, r.ret)
    /\ UNCHANGED <<data, fs, saved, hvVars>>

\* Dataset.get(search, algorithm): iterating self.data yields the keys of a
\* dict (strings) or the elements of a list (dicts); neither has has_data.
get(d, algorithm) ==
    IF algorithm # NoAlgorithm /\ Len(d.items) > 0
    THEN [exc |-> Exc("AttributeError", "object has no attribute 'has_data'"), ret |-> None]
    ELSE [exc |-> NoExc, ret |-> None]

Get(algorithm) ==
    /\ last' = LET r == get(data, algorithm)
               IN  Call("get", algorithm, r.exc, r.ret)
    /\ UNCHANGED <<data, fs, saved, hvVars>>

\* def get_studies(self) / get_metadata(self) / get_images(self) /
\* get_coordinates(self): pass.  They take no argument besides self.
Stub(nargs) ==
    IF nargs = 0
    THEN [exc |-> NoExc, ret |-> None]
    ELSE [exc |-> Exc("TypeError", "takes exactly 1 argument (2 given)"), ret |-> None]

StudyIdArgs == {<<>>, IdS1, <<"S", "9">>}

GetStudies(sid) ==
    /\ last' = LET r == Stub(IF sid = <<>> THEN 0 ELSE 1)
               IN  Call("get_studies", sid, r.exc, r.ret)
    /\ UNCHANGED <<data, fs, saved, hvVars>>

GetMetadata(sid) ==
    /\ last' = LET r == Stub(IF sid = <<>> THEN 0 ELSE 1)
               IN  Call("get_metadata", sid, r.exc, r.ret)
    /\ UNCHANGED <<data, fs, saved, hvVars>>

GetImages(sid) ==
    /\ last' = LET r == Stub(IF sid = <<>> THEN 0 ELSE 1)
               IN  Call("get_images", sid, r.exc, r.ret)
    /\ UNCHANGED <<data, fs, saved, hvVars>>

GetCoordinates(sid) ==
    /\ last' = LET r == Stub(IF sid = <<>> THEN 0 ELSE 1)
               IN  Call("get_coordinates", sid, r.exc, r.ret)
    /\ UNCHANGED <<data, fs, saved, hvVars>>

\* A save that looks for a '.gz'-style suffix instead of a trailing 'z'.
SaveCompresses_gz(filename) == EndsWith(filename, <<"g", "z">>)

\* filename.endswith('z') in save
SaveCompresses(filename) == EndsWith(filename, LetterZ)

\* A load that looks for a '.gz'-style suffix instead of a trailing 'z'.
LoadDecompresses_gz(filename) == EndsWith(filename, <<"g", "z">>)

\* filename.endswith('z') in load
LoadDecompresses(filename) == EndsWith(filename, LetterZ)

\* What a completed save(filename) of `self` leaves in the file.
SaveBytes(self, filename) ==
    IF SaveCompresses(filename) THEN Gzip(Pickle(self)) ELSE Pickle(self)

\* Dataset.save(filename).  fault = "none": the call completes.  "open": the
\* file cannot be opened for writing.  "write": the write fails after k
\* chunks reached the file, which open(..., 'wb') had truncated.
Save(f, fault, k) ==
    LET self == DatasetObj(data)
        bytes == SaveBytes(self, f)
        call == [Call("save", f, NoExc, None) EXCEPT
                    !.gz = SaveCompresses(f), !.before = fs[f]]
    IN  /\ k < Len(bytes)
        /\ fault = "write" \/ k = 0
        /\ CASE fault = "none" ->
                  /\ fs' = [fs EXCEPT ![f] = File(bytes)]
                  /\ saved' = [saved EXCEPT ![f] = self]
                  /\ last' = call
             [] fault = "open" ->
                  /\ UNCHANGED <<fs, saved, hvVars>>
                  /\ last' = [call EXCEPT !.exc = Exc("IOError", "cannot open")]
             [] fault = "write" ->
                  /\ fs' = [fs EXCEPT ![f] = File(SubSeq(bytes, 1, k))]
                  /\ saved' = [saved EXCEPT ![f] = None]
                  /\ last' = [call EXCEPT !.exc = Exc("IOError", "write failed")]
        /\ UNCHANGED <<data, hvVars>>

SaveFaults == {"none", "open", "write"}
\* Longest snapshot: gzip header, three pickle chunks, gzip trailer.
WritePoints == 0..4

\* A load without the type check.
IsDataset_unchecked(obj) == TRUE

\* isinstance(dataset, Dataset)
IsDataset(obj) == obj.cls = "Dataset"

\* Dataset.load(filename)
load(files, filename) ==
    LET gz == LoadDecompresses(filename)
        res(exc, ret, tries, decoded) ==
            [exc |-> exc, ret |-> ret, gz |-> gz, tries |-> tries,
             loaded |-> decoded # <<>>,
             decoded |-> IF decoded = <<>> THEN None ELSE decoded[1]]
    IN  IF ~files[filename].exists
        THEN res(Exc("IOError", "No such file"), None, 0, <<>>)
        ELSE
        LET stream == IF gz THEN Gunzip(files[filename].bytes)
                            ELSE [exc |-> NoExc, out |-> files[filename].bytes]
        IN  IF stream.exc # NoExc THEN res(stream.exc, None, 1, <<>>)
            ELSE
            LET first == Unpickle(stream.out, "ASCII")
                retry == first.exc.type = "UnicodeDecodeError"
                final == IF retry THEN Unpickle(stream.out, "latin") ELSE first
                tries == IF retry THEN 2 ELSE 1
            IN  IF final.exc # NoExc THEN res(final.exc, None, tries, <<>>)
                ELSE IF ~IsDataset(final.obj)
                THEN res(Exc("IOError", "Pickled object must be Dataset"),
                         None, tries, <<final.obj>>)
                ELSE res(NoExc, final.obj, tries, <<final.obj>>)

Load(f) ==
    /\ last' = LET r == load(fs, f)
               IN  [Call("load", f, r.exc, r.ret) EXCEPT
                       !.gz = r.gz, !.tries = r.tries, !.loaded = r.loaded,
                       !.decoded = r.decoded]
    /\ UNCHANGED <<data, fs, saved, hvVars>>

\* Another program writes a file at a snapshot path.
ExternalWrite(f, bytes) ==
    /\ fs' = [fs EXCEPT ![f] = File(bytes)]
    /\ saved' = [saved EXCEPT ![f] = None]
    /\ last' = Call("external_write", f, NoExc, None)
    /\ UNCHANGED <<data, hvVars>>

\* Construction and the query methods.
QueryNext ==
    \/ \E jf \in JsonFiles : Construct(jf)
    \/ \E r \in Requirements : HasData(r)
    \/ \E a \in Algorithms : Get(a)
    \/ \E sid \in StudyIdArgs : GetStudies(sid)
    \/ \E sid \in StudyIdArgs : GetMetadata(sid)
    \/ \E sid \in StudyIdArgs : GetImages(sid)
    \/ \E sid \in StudyIdArgs : GetCoordinates(sid)

QuerySpec == Init /\ [][QueryNext]_vars

\* Construction and the snapshot methods.
Next ==
    \/ \E jf \in JsonFiles : Construct(jf)
    \/ \E f \in Filenames, fault \in SaveFaults, k \in WritePoints : Save(f, fault, k)
    \/ \E f \in Filenames : Load(f)
    \/ \E f \in Filenames, bytes \in ForeignFiles : ExternalWrite(f, bytes)

Spec == Init /\ [][Next]_vars

\* download_combined_database and the user's changes to out_dir.
HarvestNext ==
    \/ \E overwrite \in BOOLEAN, listing \in Listings, net \in {"up", "down"} :
           Download(overwrite, listing, net)
    \/ MakeDir
    \/ RemoveDir
    \/ \E name \in CacheNames : RemoveCache(name)

HarvestSpec == Init /\ [][HarvestNext]_vars

\* ================================================================ claims

\* ---- snapshot claims, under Spec

\* C1: a load(f) that follows a completed save(f) of a dataset D returns
\* without an exception an object equal to D (a Dataset with the same study
\* records and the same data for each), for a filename ending in 'z' and for
\* one that does not.
C1_RoundTrip ==
    \A f \in Filenames :
        (last.op = "load" /\ last.arg = f /\ saved[f] # None)
            => (last.exc = NoExc /\ last.ret = saved[f])

\* A compressed snapshot of the two-study dataset has been loaded back.
C1_Witness ==
    /\ last.op = "load"
    /\ EndsWith(last.arg, LetterZ)
    /\ saved[last.arg] = DatasetObj(DocTwo)
    /\ last.ret = DatasetObj(DocTwo)

\* What pickle.load handed back was not a Dataset.
DecodedNonDataset == last.op = "load" /\ last.loaded /\ last.decoded.cls # "Dataset"

\* C2 as stated: loading a snapshot whose decoded content is not a Dataset
\* fails with TypeMismatchError and returns nothing.
C2_TypeMismatchError ==
    DecodedNonDataset => (last.exc.type = "TypeMismatchError" /\ last.ret = None)

\* C2 as amended: loading a snapshot whose decoded content is not a Dataset
\* fails with IOError ("Pickled object must be ... Dataset") and returns
\* nothing, and whatever load returns is a Dataset; compressed or not, on the
\* first decode or on the fallback decode.
C2_RejectsNonDataset ==
    /\ DecodedNonDataset
           => /\ last.exc = Exc("IOError", "Pickled object must be Dataset")
              /\ last.ret = None
    /\ (last.op = "load" /\ last.exc = NoExc) => last.ret.cls = "Dataset"

\* A compressed pickle of a plain mapping was decoded on the fallback attempt
\* and rejected.
C2_Witness ==
    /\ DecodedNonDataset
    /\ last.decoded.cls = "dict"
    /\ last.gz
    /\ last.tries = 2
    /\ last.exc.type = "IOError"

IsGzipStream(bytes) ==
    /\ Len(bytes) >= 2
    /\ bytes[1].op = "GZHDR"
    /\ bytes[Len(bytes)].op = "GZEOF"

IsCompleteSnapshot(bytes) ==
    \/ IsGzipStream(bytes)
    \/ bytes # <<>> /\ bytes[Len(bytes)].op = "STOP"

\* C6: after a save(path) that failed, the file at path is absent, or what it
\* was before the call, or a complete snapshot; and load never returns a
\* dataset from a partially written file.
C6_SaveAtomic ==
    /\ (last.op = "save" /\ last.exc # NoExc)
           => \/ ~fs[last.arg].exists
              \/ fs[last.arg] = last.before
              \/ IsCompleteSnapshot(fs[last.arg].bytes)
    /\ (last.op = "load" /\ last.exc = NoExc)
           => IsCompleteSnapshot(fs[last.arg].bytes)

\* C7: the suffix alone decides compression, the same way in both
\* directions: a completed save(f) leaves a gzip stream iff f ends with 'z',
\* a load(f) of an existing file decompresses iff f ends with 'z', and a file
\* left by a completed save(f) is a gzip stream iff load(f) decompresses.
C7_SuffixDecidesCompression ==
    /\ (last.op = "save" /\ last.exc = NoExc)
           => (IsGzipStream(fs[last.arg].bytes) <=> EndsWith(last.arg, LetterZ))
    /\ (last.op = "load" /\ last.tries > 0)
           => (last.gz <=> EndsWith(last.arg, LetterZ))
    /\ \A f \in Filenames :
           saved[f] # None => (IsGzipStream(fs[f].bytes) <=> load(fs, f).gz)

\* Both files hold completed saves, one compressed and one raw, the last of
\* them just written.
C7_Witness ==
    /\ last.op = "save"
    /\ last.exc = NoExc
    /\ IsGzipStream(fs[NamePklz].bytes)
    /\ saved[NamePkl] # None
    /\ ~IsGzipStream(fs[NamePkl].bytes)

\* ---- query claims, under QuerySpec

\* The requirement names a completed design recognizes: the coordinates
\* field and the image label z.
NameCoordinates == <<"c", "o", "o", "r", "d", "i", "n", "a", "t", "e", "s">>
NameZ == <<"z">>
RecognizedNames == {NameCoordinates, NameZ}

ClausesOf(req) == Split(req, AndToken)
HasUnknownClause(req) ==
    \E i \in 1..Len(ClausesOf(req)) : ClausesOf(req)[i] \notin RecognizedNames

\* A clause is satisfied by a record that holds the field, non-empty.
ClauseSatisfied(rec, clause) ==
    CASE clause = NameCoordinates ->
             "coordinates" \in rec.keys /\ rec.coordinates # <<>>
      [] clause = NameZ ->
             "images" \in rec.keys /\ \E im \in rec.images : im[1] = "z"
      [] OTHER -> FALSE

Satisfies(rec, req) ==
    \A i \in 1..Len(ClausesOf(req)) : ClauseSatisfied(rec, ClausesOf(req)[i])

\* The truth value Python gives an object.
Truthy(o) ==
    CASE o.cls = "NoneType" -> FALSE
      [] o.cls \in {"dict", "list"} -> Len(o.data.items) > 0
      [] OTHER -> TRUE

\* C3: has_data with a requirement holding a clause that is no recognized
\* requirement name raises UnknownRequirementError; it raises nothing
\* generic and does not complete silently.
C3_UnknownRequirementError ==
    (last.op = "has_data" /\ HasUnknownClause(last.arg))
        => last.exc.type = "UnknownRequirementError"

\* C4: has_data with recognized clauses returns a boolean, true iff every
\* clause names a field present and non-null in every record asked about.
C4_HasDataReturnsBoolean ==
    (last.op = "has_data" /\ ~HasUnknownClause(last.arg) /\ data.kind = "dict")
        => /\ last.exc = NoExc
           /\ last.ret.cls = "bool"
           /\ Truthy(last.ret) <=>
                  \A i \in 1..Len(data.items) : Satisfies(data.items[i].val, last.arg)

RECURSIVE SelectItems(_, _)
SelectItems(items, req) ==
    IF items = <<>> THEN <<>>
    ELSE (IF Satisfies(Head(items).val, req) THEN <<Head(items).val>> ELSE <<>>)
             \o SelectItems(Tail(items), req)

\* C5: get with an algorithm's req_data returns the records for which the
\* requirement holds, in the collection's order, and an empty sequence when
\* none matches; it raises nothing.
C5_GetSelectsMatching ==
    (last.op = "get" /\ last.arg # NoAlgorithm /\ ~HasUnknownClause(last.arg)
         /\ data.kind = "dict")
        => /\ last.exc = NoExc
           /\ last.ret = PlainObj(JList(SelectItems(data.items, last.arg)))

InCollection(sid) == \E i \in 1..Len(data.items) : data.items[i].key = sid

\* C8: get_images(study_id) and get_coordinates(study_id) return the
\* record's mapping / sequence for a study_id of the collection and fail with
\* NotFoundError for any other.
C8_AccessorsByStudyId ==
    (last.op \in {"get_images", "get_coordinates"} /\ last.arg # <<>>
         /\ data.kind = "dict")
        => IF InCollection(last.arg)
           THEN /\ last.exc = NoExc
                /\ last.ret.cls = (IF last.op = "get_images" THEN "dict" ELSE "list")
           ELSE last.exc.type = "NotFoundError"

\* C9: a Dataset constructed from a JSON object holds, for every study, a
\* record with all three of metadata, images and coordinates (a key missing
\* in the file is present and empty).
C9_MissingKeysDefaultToEmpty ==
    (last.op = "__init__" /\ last.exc = NoExc /\ data.kind = "dict")
        => \A i \in 1..Len(data.items) :
               data.items[i].val.keys = {"metadata", "images", "coordinates"}

\* ---- harvest claim, under HarvestSpec

\* C10: a call of download_combined_database that returned normally has left
\* the three CSV caches in out_dir and the image files of the reduced image
\* table downloaded under out_dir.
C10_ReturnLeavesCachesAndImages ==
    (harvest.called /\ harvest.exc = NoExc)
        => /\ \A name \in CacheNames : IsFile(disk, name)
           /\ harvest.red \subseteq disk.images

====
